---- MODULE Spec2Model ----
(***************************************************************************)
(* Strix recon pipeline: the SOAR orchestrator (soar/orchestrator) that    *)
(* runs the phases under a timeout, and target discovery                   *)
(* (modules/discovery.js) with its port scan.                              *)
(*                                                                         *)
(* Node.js runs one macrotask (timer callback, I/O callback) at a time and *)
(* drains all promise continuations (microtasks) before the next one.  pc  *)
(* values "next" and "sync" are positions inside such a chain: no timer,   *)
(* no I/O completion and no passage of time interleaves there.             *)
(***************************************************************************)
EXTENDS Integers, Sequences, FiniteSets, TLC

\* ------------------------------------------------------------------ bounds
\* largest options.timeout drawn (in clock ticks, one tick = one second)
MaxTimeout == 2
\* clock horizon: Tick is disabled once now reaches it
MaxTime == 5
\* longest explicit port list (options.ports) drawn
MaxPorts == 3
MaxEvents == 3
MaxServices == 2
MaxFindings == 3
MaxSims == 4

\* --------------------------------------------------------------- constants
PhaseNames ==
  <<"Discovery", "Vulnerability Assessment", "Exploit Simulation",
    "Attack Surface Analysis", "Report Generation">>

\* the function each phase's closure calls
OpNames ==
  <<"discoverTarget", "assessVulnerabilities", "simulateExploits",
    "analyzeAttackSurface", "generatePDFReport">>

\* this.results.<key> written by the closure of phases 1..4
ResultKeys == <<"discovery", "vulnerabilities", "exploits", "attackSurface">>

AllResultKeys == {"discovery", "vulnerabilities", "exploits", "attackSurface", "summary"}

NoError == <<>>

Null == "null"

VARIABLES
  options,    \* constructor options: [timeout, output]
  maxRuns,    \* how many times the caller calls execute on this instance
  runs,       \* number of execute calls so far
  pc,         \* position of execute: idle, await, sync, next, done, failed
  cur,        \* phase whose runPhase is in progress (0: none)
  workflow,   \* this.workflow: sequence of phase records
  results,    \* this.results: key -> 0 (absent) or the run that wrote it
  ops,        \* phase operations in flight: [run, phase, stage]
  started,    \* history: <<run, phase>> of every fn() call made
  timer,      \* the setTimeout of executeWithTimeout: [armed, deadline]
  now,        \* wall clock
  startTime,  \* this.startTime
  thrown,     \* the error execute rejected with (NoError: none)
  \* --- one call of discoverTarget (modules/discovery.js)
  scanOptions, \* its options: [given (ports is not null), ports, quick]
  dpc,        \* position: init, resolving, loop, probing, detect, banner,
              \*           returned, threw
  ports,      \* the port list being scanned
  i,          \* scanPorts: number of ports already probed
  openPorts,  \* scanPorts: its results array
  signal,     \* the shared abort flag: [aborted]
  timeoutId,  \* discoverTarget's own timer is armed
  detected,          \* detectServices: number of open ports already handled
  services,   \* detectServices: its results array
  discovery,  \* what discoverTarget returned (meaningful once dpc = returned)
  \* --- one probe: a call of checkPort, grabBanner or checkSSLInfo
  probeKind,  \* which of the three functions was called
  socket,     \* its net.Socket: connecting, connected, ended, destroyed
  resolved,   \* the flag cleanup tests (named connected in checkSSLInfo)
  promise,    \* the returned promise: [state, value]
  sslSocket,  \* checkSSLInfo's TLS socket: none, handshaking, secure, error
  eventsSeen, \* history: the events delivered so far, in order
  \* --- one call of assessVulnerabilities (vulnerability module)
  assessInput, \* discoveryResults.openPorts
  apc,        \* position: loop, checking, returned, rejected
  svcIndex,   \* the loop index i: number of services already checked
  findings,   \* the findings array
  outcomes,   \* history: per service checked, what its check met and returned
  assessment, \* what assessVulnerabilities returned (once apc = returned)
  \* --- calls of calculateRiskScore
  scoreInput, \* the findings list passed in
  scoreOut,   \* [done, score]: the value returned for scoreInput
  scorePrev,  \* [done, score]: the value returned before a finding was added
  scoreAdded, \* the severity of the finding added last, or null
  \* --- one call of checkHTTPService
  httpService, \* the service record passed in
  httpEnv,    \* what its probes come back with
  httpOut,    \* [done, findings]: the array returned
  \* --- one call of generateSummary (orchestrator)
  summaryIn,  \* what it reads of this.results: [vulnerabilities, exploits]
  summaryOut  \* [done, raw, riskScore, riskLevel]: the local riskScore and
              \* the two fields returned

orchVars ==
  <<options, maxRuns, runs, pc, cur, workflow, results, ops, started, timer,
    now, startTime, thrown>>

discVars ==
  <<scanOptions, dpc, ports, i, openPorts, signal, timeoutId, detected, services,
    discovery>>

probeVars == <<probeKind, socket, resolved, promise, sslSocket, eventsSeen>>

assessVars == <<assessInput, apc, svcIndex, findings, outcomes, assessment>>

scoreVars == <<scoreInput, scoreOut, scorePrev, scoreAdded>>

httpVars == <<httpService, httpEnv, httpOut>>

summaryVars == <<summaryIn, summaryOut>>

\* everything outside the orchestrator and discoverTarget
auxVars == <<probeVars, assessVars, scoreVars, httpVars, summaryVars>>

\* everything outside one probe, one assessment, the scoring calls
notProbe == <<orchVars, discVars, assessVars, scoreVars, httpVars, summaryVars>>
notAssess == <<orchVars, discVars, probeVars, scoreVars, httpVars, summaryVars>>
notScore == <<orchVars, discVars, probeVars, assessVars, httpVars, summaryVars>>
notHttp == <<orchVars, discVars, probeVars, assessVars, scoreVars, summaryVars>>
notSummary == <<orchVars, discVars, probeVars, assessVars, scoreVars, httpVars>>

vars == <<orchVars, discVars, auxVars>>

\* ----------------------------------------------------------------- helpers
Record(name, status, error) ==
  [name |-> name, status |-> status, error |-> error]

Disarmed == [armed |-> FALSE, deadline |-> 0]

\* new Error(`${phaseName} phase timed out`)
TimeoutError_NoName(name) == <<"phase timed out">>
TimeoutError(name) == <<name, "phase timed out">>

\* new Error(`Could not resolve target: ${target}`)
ResolveError == <<"Could not resolve target:", "target">>

\* an error thrown inside the called function, propagated as it is
OpError(p) == <<"error thrown in", OpNames[p]>>

\* the operation the current runPhase awaits
Awaited_AnyOperation(o) == pc = "await"

Awaited(o) == pc = "await" /\ o.run = runs /\ o.phase = cur

\* a new macrotask may run: no promise continuation is pending
Macrotask == pc \in {"await", "done", "failed"}

\* this.workflow[this.workflow.length - 1] = {...}
SetLast(wf, rec) == [wf EXCEPT ![Len(wf)] = rec]

\* setTimeout(..., this.timeout) of executeWithTimeout
ArmTimer == [armed |-> TRUE, deadline |-> now + options.timeout]

\* an orchestrator whose first phase starts from an empty phase list
StartPhase_FreshList(r, p) ==
  /\ workflow' = IF p = 1
                   THEN <<Record(PhaseNames[p], "running", NoError)>>
                   ELSE Append(workflow, Record(PhaseNames[p], "running", NoError))
  /\ timer' = ArmTimer
  /\ cur' = p
  /\ started' = started \cup {<<r, p>>}
  /\ IF p = 4
       THEN pc' = "sync" /\ ops' = ops
       ELSE /\ pc' = "await"
            /\ ops' = ops \cup
                 {[run |-> r, phase |-> p,
                   stage |-> IF p = 1 THEN "resolving" ELSE "working"]}

\* runPhase up to its await, with executeWithTimeout's timer and fn() call;
\* the closure of phase 4 has no await: it runs to its end inside fn()
StartPhase(r, p) ==
  /\ workflow' = Append(workflow, Record(PhaseNames[p], "running", NoError))
  /\ timer' = ArmTimer
  /\ cur' = p
  /\ started' = started \cup {<<r, p>>}
  /\ IF p = 4
       THEN pc' = "sync" /\ ops' = ops
       ELSE /\ pc' = "await"
            /\ ops' = ops \cup
                 {[run |-> r, phase |-> p,
                   stage |-> IF p = 1 THEN "resolving" ELSE "working"]}

\* runPhase after the await returned
RunPhaseThen ==
  workflow' = SetLast(workflow, Record(PhaseNames[cur], "completed", NoError))

\* runPhase's catch block
RunPhaseCatch_WrongIndex(error) ==
  workflow' = [workflow EXCEPT ![IF Len(workflow) > 1 THEN Len(workflow) - 1 ELSE 1] =
                 Record(PhaseNames[cur], "failed", error)]
RunPhaseCatch(error) ==
  workflow' = SetLast(workflow, Record(PhaseNames[cur], "failed", error))

\* execute's catch block: log and rethrow; this.results is not touched
ExecuteCatch_Swallow(error) ==
  thrown' = thrown /\ pc' = "next" /\ results' = results
ExecuteCatch_Discard(error) ==
  thrown' = error /\ pc' = "failed" /\ results' = [key \in AllResultKeys |-> 0]
ExecuteCatch(error) ==
  thrown' = error /\ pc' = "failed" /\ results' = results

\* if (this.options.output)
WantsReport_Always == TRUE
WantsReport == options.output

\* the closure's assignment this.results.<key> = <value>
WriteResult(res, p, r) ==
  IF p \in 1..4 THEN [res EXCEPT ![ResultKeys[p]] = r] ELSE res

\* ------------------------------------------------------------------ actions
OrchInit(opts, n) ==
  /\ options \in opts
  /\ maxRuns = n
  /\ runs = 0
  /\ pc = "idle"
  /\ cur = 0
  /\ workflow = <<>>
  /\ results = [key \in AllResultKeys |-> 0]
  /\ ops = {}
  /\ started = {}
  /\ timer = Disarmed
  /\ now = 0
  /\ startTime = 0
  /\ thrown = NoError

DiscInit(opts) ==
  /\ scanOptions \in opts
  /\ dpc = "init"
  /\ ports = <<>>
  /\ i = 0
  /\ openPorts = <<>>
  /\ signal = [aborted |-> FALSE]
  /\ timeoutId = FALSE
  /\ detected = 0
  /\ services = <<>>
  /\ discovery = [openPorts |-> <<>>, totalPortsScanned |-> 0, openPortCount |-> 0]

Pending == [state |-> "pending", value |-> Null]

\* new Promise(...) of a probe up to the end of its executor: the socket is
\* created, the handlers are registered and connect() is under way
ProbeInit(kinds) ==
  /\ probeKind \in kinds
  /\ socket = "connecting"
  /\ resolved = FALSE
  /\ promise = Pending
  /\ sslSocket = "none"
  /\ eventsSeen = <<>>

\* assessVulnerabilities(discoveryResults) up to the head of its loop
AssessInit(inputs) ==
  /\ assessInput \in inputs
  /\ apc = "loop"
  /\ svcIndex = 0
  /\ findings = <<>>
  /\ outcomes = <<>>
  /\ assessment = [returned |-> FALSE]

NotScored == [done |-> FALSE, score |-> 0]

\* a findings list about to be passed to calculateRiskScore
ScoreInit(inputs) ==
  /\ scoreInput \in inputs
  /\ scoreOut = NotScored
  /\ scorePrev = NotScored
  /\ scoreAdded = Null

\* checkHTTPService(service, ...) about to be called
HttpInit(calls) ==
  /\ \E c \in calls : httpService = c[1] /\ httpEnv = c[2]
  /\ httpOut = [done |-> FALSE, findings |-> <<>>]

\* this.results as generateSummary reads it for the score: the vulnerability
\* results' riskScore and the exploit results' riskDistribution, each of
\* which may be missing
Results(hasScore, riskScore, hasDistribution, critical, high) ==
  [vulnerabilities |-> [present |-> hasScore, riskScore |-> riskScore],
   exploits |-> [present |-> hasDistribution,
                 riskDistribution |-> [critical |-> critical, high |-> high]]]

NoResults == Results(FALSE, 0, FALSE, 0, 0)

\* generateSummary() about to be called
SummaryInit(inputs) ==
  /\ summaryIn \in inputs
  /\ summaryOut = [done |-> FALSE, raw |-> 0, riskScore |-> 0,
                   riskLevel |-> Null]

\* the parts of the program a specification does not look into
ProbeIdle == ProbeInit({"none"})
AssessIdle == AssessInit({<<>>})
ScoreIdle == ScoreInit({<<>>})
HttpIdle == HttpInit({<<Null, Null>>})
SummaryIdle == SummaryInit({NoResults})

AuxIdle == ProbeIdle /\ AssessIdle /\ ScoreIdle /\ HttpIdle /\ SummaryIdle

\* an orchestrator about to be used once; discoverTarget not looked into
Init ==
  /\ OrchInit([timeout : 1..MaxTimeout, output : BOOLEAN], 1)
  /\ DiscInit({[given |-> FALSE, ports |-> <<>>, quick |-> FALSE]})
  /\ AuxIdle

\* execute(target) up to the first await
Execute ==
  /\ pc = "idle" \/ (pc \in {"done", "failed"} /\ runs < maxRuns)
  /\ runs' = runs + 1
  /\ startTime' = now
  /\ thrown' = NoError
  /\ StartPhase(runs + 1, 1)
  /\ UNCHANGED <<options, maxRuns, results, now, discVars, auxVars>>

\* the timer callback of executeWithTimeout: reject, then runPhase's catch,
\* then execute's catch; the operation itself is not told and stays in flight
TimerFire ==
  /\ pc = "await"
  /\ timer.armed
  /\ now >= timer.deadline
  /\ timer' = Disarmed
  /\ RunPhaseCatch(TimeoutError(PhaseNames[cur]))
  /\ ExecuteCatch(TimeoutError(PhaseNames[cur]))
  /\ UNCHANGED <<options, maxRuns, runs, cur, ops, started, now, startTime, discVars, auxVars>>

\* the operation's promise rejects with error
Reject(o, error) ==
  /\ ops' = ops \ {o}
  /\ IF Awaited(o)
       THEN /\ timer' = Disarmed
            /\ RunPhaseCatch(error)
            /\ ExecuteCatch(error)
       ELSE UNCHANGED <<timer, workflow, thrown, pc, results>>
  /\ UNCHANGED <<options, maxRuns, runs, cur, started, now, startTime, discVars, auxVars>>

\* discoverTarget: await dnsLookup(target); if (!ip) throw
DnsLookup(o) ==
  /\ Macrotask
  /\ o.stage = "resolving"
  /\ \/ /\ ops' = (ops \ {o}) \cup {[o EXCEPT !.stage = "working"]}
        /\ UNCHANGED <<options, maxRuns, runs, pc, cur, workflow, results,
                       started, timer, now, startTime, thrown, discVars, auxVars>>
     \/ Reject(o, ResolveError)

\* the called function throws or its promise rejects
OpReject(o) ==
  /\ Macrotask
  /\ o.stage = "working"
  /\ Reject(o, OpError(o.phase))

\* the called function's promise resolves: the closure stores the result,
\* executeWithTimeout clears the timer, runPhase marks the record completed
OpResolve(o) ==
  /\ Macrotask
  /\ o.stage = "working"
  /\ results' = WriteResult(results, o.phase, o.run)
  /\ ops' = ops \ {o}
  /\ IF Awaited(o)
       THEN /\ timer' = Disarmed
            /\ RunPhaseThen
            /\ pc' = "next"
       ELSE UNCHANGED <<timer, workflow, pc>>
  /\ UNCHANGED <<options, maxRuns, runs, cur, started, now, startTime, thrown, discVars, auxVars>>

\* phase 4: analyzeAttackSurface is called synchronously inside fn()
SyncPhase ==
  /\ pc = "sync"
  /\ timer' = Disarmed
  /\ \/ /\ results' = WriteResult(results, cur, runs)
        /\ RunPhaseThen
        /\ pc' = "next"
        /\ UNCHANGED thrown
     \/ /\ RunPhaseCatch(OpError(cur))
        /\ ExecuteCatch(OpError(cur))
  /\ UNCHANGED <<options, maxRuns, runs, cur, ops, started, now, startTime, discVars, auxVars>>

\* execute's continuation after a runPhase returned
Advance ==
  /\ pc = "next"
  /\ \/ /\ cur \in 1..3
        /\ StartPhase(runs, cur + 1)
        /\ UNCHANGED results
     \/ /\ cur = 4
        /\ results' = [results EXCEPT !["summary"] = runs]
        /\ IF WantsReport
             THEN StartPhase(runs, 5)
             ELSE pc' = "done" /\ UNCHANGED <<workflow, timer, cur, started, ops>>
     \/ /\ cur = 5
        /\ pc' = "done"
        /\ UNCHANGED <<workflow, timer, cur, started, ops, results>>
  /\ UNCHANGED <<options, maxRuns, runs, now, startTime, thrown, discVars, auxVars>>

\* one second passes; a due timer fires before more time passes
Tick ==
  /\ Macrotask
  /\ pc = "await" \/ ops # {}
  /\ now < MaxTime
  /\ ~(timer.armed /\ now >= timer.deadline)
  /\ now' = now + 1
  /\ UNCHANGED <<options, maxRuns, runs, pc, cur, workflow, results, ops,
                 started, timer, startTime, thrown, discVars, auxVars>>

Next ==
  \/ Execute
  \/ TimerFire
  \/ \E o \in ops : DnsLookup(o)
  \/ \E o \in ops : OpReject(o)
  \/ \E o \in ops : OpResolve(o)
  \/ SyncPhase
  \/ Advance
  \/ Tick

Spec == Init /\ [][Next]_vars

\* getStatus(): running is some(...), completed is every(...), failed is
\* some(...) over this.workflow
getStatus ==
  [running   |-> \E n \in 1..Len(workflow) : workflow[n].status = "running",
   completed |-> \A n \in 1..Len(workflow) : workflow[n].status = "completed",
   failed    |-> \E n \in 1..Len(workflow) : workflow[n].status = "failed"]

\* the same orchestrator instance on which execute may be called a second
\* time once the first call has settled
InitRerun ==
  /\ OrchInit([timeout : 1..MaxTimeout, output : BOOLEAN], 2)
  /\ DiscInit({[given |-> FALSE, ports |-> <<>>, quick |-> FALSE]})
  /\ AuxIdle

SpecRerun == InitRerun /\ [][Next]_vars

\* ------------------------------------------------ discovery: definitions
\* getCommonPortServices()
CommonPortServices ==
  (20 :> "ftp-data") @@ (21 :> "ftp") @@ (22 :> "ssh") @@ (23 :> "telnet") @@
  (25 :> "smtp") @@ (53 :> "dns") @@ (80 :> "http") @@ (110 :> "pop3") @@
  (111 :> "rpcbind") @@ (135 :> "msrpc") @@ (139 :> "netbios-ssn") @@
  (143 :> "imap") @@ (443 :> "https") @@ (445 :> "microsoft-ds") @@
  (993 :> "imaps") @@ (995 :> "pop3s") @@ (1433 :> "mssql") @@
  (1521 :> "oracle") @@ (3306 :> "mysql") @@ (3389 :> "rdp") @@
  (5432 :> "postgresql") @@ (5900 :> "vnc") @@ (6379 :> "redis") @@
  (8080 :> "http-proxy") @@ (8443 :> "https-alt") @@ (27017 :> "mongodb")

\* portServiceMap[port] || 'unknown'
ServiceName(port) ==
  IF port \in DOMAIN CommonPortServices THEN CommonPortServices[port] ELSE "unknown"

\* the default list of discoverTarget
DefaultPorts ==
  <<21, 22, 23, 25, 53, 80, 110, 135, 139, 143, 443, 445, 993, 995, 1433,
    3306, 3389, 5432, 5900, 8080, 8443>>

\* ports the explicit lists are drawn from (9999 is not in the table)
PortChoices == {22, 80, 9999}

\* ports on which the scanned host may accept a connection
OpenablePorts == {22, 80, 9999}

PortLists == UNION {[1..n -> PortChoices] : n \in 0..MaxPorts}

\* one explicit list longer than the quick-mode cut (-p with ten ports), of
\* which only the first, the ninth and the tenth may be open
LongPortList == <<22, 8001, 8002, 8003, 8004, 8005, 8006, 8007, 80, 9999>>

\* banners grabBanner may return: nothing (timeout, error), an empty string
\* after trim, or text
Banners == {Null, "", "SSH-2.0-OpenSSH_8.9", "220 ProFTPD 1.3 Server", "HTTP/1.1 200 OK"}

\* extractVersion on the banners above: the first of the three patterns that
\* matches, match[0]
extractVersion(banner) ==
  CASE banner = "220 ProFTPD 1.3 Server" -> "ProFTPD 1.3"
    [] banner = "HTTP/1.1 200 OK" -> "HTTP/1.1"
    [] OTHER -> Null

\* options.ports || [21, 22, ...]
PortsToScan(opts) == IF opts.given THEN opts.ports ELSE DefaultPorts

\* ports.splice(8)
QuickPorts == 8

\* a splice that removes nothing
Splice_KeepsAll(list, n) == list

Splice(list, n) == SubSeq(list, 1, IF Len(list) < n THEN Len(list) ELSE n)

\* results.push({port, service, state: 'open'})
PortRecord(port) == [port |-> port, service |-> ServiceName(port), state |-> "open"]

\* a detectServices that stores whatever grabBanner resolved with, the empty
\* string included
ServiceInfo_KeepsEmptyBanner(rec, banner) ==
  IF banner = Null
    THEN [port |-> rec.port, service |-> rec.service, state |-> "open"]
    ELSE [port |-> rec.port, service |-> rec.service, state |-> "open",
          banner |-> banner, version |-> extractVersion(banner)]

\* serviceInfo of detectServices
ServiceInfo(rec, banner) ==
  IF banner \in {Null, ""}
    THEN [port |-> rec.port, service |-> rec.service, state |-> "open"]
    ELSE [port |-> rec.port, service |-> rec.service, state |-> "open",
          banner |-> banner, version |-> extractVersion(banner)]

\* ----------------------------------------------------- discovery: actions
\* discoverTarget is called: its timer is set, dnsLookup is awaited
DiscoverTarget ==
  /\ dpc = "init"
  /\ timeoutId' = TRUE
  /\ dpc' = "resolving"
  /\ UNCHANGED <<scanOptions, ports, i, openPorts, signal, detected, services, discovery, orchVars, auxVars>>

\* discoverTarget's timer callback: signal.aborted = true
DiscoveryTimeout ==
  /\ timeoutId
  /\ dpc \in {"resolving", "probing", "banner"}
  /\ signal' = [aborted |-> TRUE]
  /\ timeoutId' = FALSE
  /\ UNCHANGED <<scanOptions, dpc, ports, i, openPorts, detected, services, discovery, orchVars, auxVars>>

\* dnsLookup returned: no ip throws (finally clears the timer); otherwise the
\* port list is chosen, cut to its first 8 in quick mode, and scanPorts starts
Resolved ==
  /\ dpc = "resolving"
  /\ \/ /\ dpc' = "threw"
        /\ timeoutId' = FALSE
        /\ UNCHANGED <<ports, i, openPorts>>
     \/ /\ ports' = IF scanOptions.quick
                      THEN Splice(PortsToScan(scanOptions), QuickPorts)
                      ELSE PortsToScan(scanOptions)
        /\ i' = 0
        /\ openPorts' = <<>>
        /\ dpc' = "loop"
        /\ UNCHANGED timeoutId
  /\ UNCHANGED <<scanOptions, signal, detected, services, discovery, orchVars, auxVars>>

\* scanPorts with a loop that never looks at the flag
ScanLoop_IgnoresSignal ==
  /\ dpc = "loop"
  /\ IF i < Len(ports)
       THEN dpc' = "probing" /\ UNCHANGED <<detected, services>>
       ELSE dpc' = "detect" /\ detected' = 0 /\ services' = <<>>
  /\ UNCHANGED <<scanOptions, ports, i, openPorts, signal, timeoutId, discovery, orchVars, auxVars>>

\* scanPorts, head of the for loop: stop at the end of the list or when the
\* flag is set, else start checkPort on the next port
ScanLoop ==
  /\ dpc = "loop"
  /\ IF i < Len(ports) /\ ~signal.aborted
       THEN dpc' = "probing" /\ UNCHANGED <<detected, services>>
       ELSE dpc' = "detect" /\ detected' = 0 /\ services' = <<>>
  /\ UNCHANGED <<scanOptions, ports, i, openPorts, signal, timeoutId, discovery, orchVars, auxVars>>

\* checkPort resolved for ports[i]: an open port is pushed
ProbeDone ==
  /\ dpc = "probing"
  /\ \E isOpen \in (IF ports[i + 1] \in OpenablePorts THEN BOOLEAN ELSE {FALSE}) :
       openPorts' = IF isOpen THEN Append(openPorts, PortRecord(ports[i + 1]))
                              ELSE openPorts
  /\ i' = i + 1
  /\ dpc' = "loop"
  /\ UNCHANGED <<scanOptions, ports, signal, timeoutId, detected, services, discovery, orchVars, auxVars>>

\* a discoverTarget without the finally block: the timer outlives the return
DetectLoop_KeepsTimer ==
  /\ dpc = "detect"
  /\ IF detected < Len(openPorts)
       THEN dpc' = "banner" /\ UNCHANGED discovery
       ELSE /\ dpc' = "returned"
            /\ discovery' = [openPorts |-> services,
                             totalPortsScanned |-> Len(ports),
                             openPortCount |-> Len(openPorts)]
  /\ UNCHANGED <<scanOptions, ports, i, openPorts, signal, timeoutId, detected, services, orchVars, auxVars>>

\* detectServices, head of the for loop; at its end discoverTarget returns
\* its result and finally clears the timer
DetectLoop ==
  /\ dpc = "detect"
  /\ IF detected < Len(openPorts)
       THEN dpc' = "banner" /\ UNCHANGED <<discovery, timeoutId>>
       ELSE /\ dpc' = "returned"
            /\ discovery' = [openPorts |-> services,
                             totalPortsScanned |-> Len(ports),
                             openPortCount |-> Len(openPorts)]
            /\ timeoutId' = FALSE
  /\ UNCHANGED <<scanOptions, ports, i, openPorts, signal, detected, services, orchVars, auxVars>>

\* grabBanner settled for openPorts[detected]: it resolved with a banner or
\* with nothing, or it rejected and the catch block only logs; either way
\* results.push(serviceInfo)
BannerDone ==
  /\ dpc = "banner"
  /\ \/ \E banner \in Banners :
          services' = Append(services, ServiceInfo(openPorts[detected + 1], banner))
     \/ services' = Append(services, [port |-> openPorts[detected + 1].port,
                                      service |-> openPorts[detected + 1].service,
                                      state |-> "open"])
  /\ detected' = detected + 1
  /\ dpc' = "detect"
  /\ UNCHANGED <<scanOptions, ports, i, openPorts, signal, timeoutId, discovery, orchVars, auxVars>>

NextDiscovery ==
  \/ DiscoverTarget
  \/ DiscoveryTimeout
  \/ Resolved
  \/ ScanLoop
  \/ ProbeDone
  \/ DetectLoop
  \/ BannerDone

\* one call of discoverTarget, for every explicit port list up to MaxPorts
\* long (repeated ports included, as parsePorts passes them on) or none, in
\* quick and in full mode
InitDiscovery ==
  /\ OrchInit({[timeout |-> 1, output |-> FALSE]}, 1)
  /\ DiscInit([given : {TRUE}, ports : PortLists \cup {LongPortList},
                quick : BOOLEAN]
                \cup [given : {FALSE}, ports : {<<>>}, quick : BOOLEAN])
  /\ AuxIdle

SpecDiscovery == InitDiscovery /\ [][NextDiscovery]_vars

\* ------------------------------------------------------- probes: one socket
\* checkPort (discovery.js), grabBanner (discovery.js) and checkSSLInfo
\* (vulnerability module) each create one net.Socket, register handlers and
\* return a promise.  One action per handler; the environment may deliver
\* the events in any order, also after the socket was destroyed.
ProbeKinds == {"checkPort", "grabBanner", "checkSSLInfo"}

\* resolve(v): a promise keeps the first value it was settled with
Resolve(v) ==
  IF promise.state = "pending" THEN [state |-> "resolved", value |-> v]
  ELSE promise

\* cleanup(): if (!resolved) { resolved = true; socket.destroy(); }
\* (checkSSLInfo: the same with the flag named connected)
CleanupSocket(s) == IF ~resolved THEN "destroyed" ELSE s

\* what checkPort's handler of event ev passes to resolve
CheckPortResult_ErrorRejects(ev) ==
  IF ev = "connect" THEN "true" ELSE IF ev = "error" THEN "rejected" ELSE "false"

CheckPortResult(ev) == IF ev = "connect" THEN "true" ELSE "false"

\* the environment delivers event ev (a socket connects at most once)
Delivered(kind, ev) ==
  /\ probeKind = kind
  /\ Len(eventsSeen) < MaxEvents
  /\ ev = "connect" => \A n \in 1..Len(eventsSeen) : eventsSeen[n] # "connect"
  /\ eventsSeen' = Append(eventsSeen, ev)

\* what net.Socket does to itself when it emits ev: 'connect' ends
\* connecting, 'error' comes with its destruction, 'timeout' only reports
\* idleness
SocketAfter(ev) ==
  CASE ev = "connect" -> IF socket = "connecting" THEN "connected" ELSE socket
    [] ev = "error"   -> "destroyed"
    [] OTHER          -> socket

\* checkPort, socket.on('connect' | 'timeout' | 'error'):
\* cleanup(); resolve(true | false | false)
CheckPortOn(ev) ==
  /\ Delivered("checkPort", ev)
  /\ socket' = CleanupSocket(SocketAfter(ev))
  /\ resolved' = TRUE
  /\ promise' = Resolve(CheckPortResult(ev))
  /\ UNCHANGED <<probeKind, sslSocket, notProbe>>

\* grabBanner registers no 'connect' handler: the socket just connects
GrabBannerConnect ==
  /\ Delivered("grabBanner", "connect")
  /\ socket' = SocketAfter("connect")
  /\ UNCHANGED <<probeKind, resolved, promise, sslSocket, notProbe>>

\* grabBanner, socket.on('data'): data += chunk; if (data.length > 0)
\* { cleanup(); resolve(data.trim().substring(0, 200)); }
GrabBannerData ==
  /\ socket = "connected"
  /\ Delivered("grabBanner", "data")
  /\ socket' = CleanupSocket(socket)
  /\ resolved' = TRUE
  /\ promise' = Resolve("banner")
  /\ UNCHANGED <<probeKind, sslSocket, notProbe>>

\* grabBanner, socket.on('timeout' | 'error'): cleanup(); resolve(null)
GrabBannerFail(ev) ==
  /\ Delivered("grabBanner", ev)
  /\ socket' = CleanupSocket(SocketAfter(ev))
  /\ resolved' = TRUE
  /\ promise' = Resolve(Null)
  /\ UNCHANGED <<probeKind, sslSocket, notProbe>>

\* checkSSLInfo, socket.on('connect'): connected = true;
\* sslSocket = tls.connect({socket, ...}) with its two handlers
SslConnect ==
  /\ Delivered("checkSSLInfo", "connect")
  /\ socket' = SocketAfter("connect")
  /\ resolved' = TRUE
  /\ sslSocket' = "handshaking"
  /\ UNCHANGED <<probeKind, promise, notProbe>>

\* checkSSLInfo, sslSocket.on('secureConnection'), the handler as registered:
\* resolve({valid, tlsVersion, cipher, subject}); sslSocket.end()
SslSecureConnection ==
  /\ sslSocket = "handshaking"
  /\ Delivered("checkSSLInfo", "secureConnection")
  /\ promise' = Resolve("sslInfo")
  /\ sslSocket' = "ended"
  /\ socket' = IF socket = "destroyed" THEN socket ELSE "ended"
  /\ UNCHANGED <<probeKind, resolved, notProbe>>

\* checkSSLInfo, sslSocket.on('error'):
\* resolve({valid: false, error: 'SSL error'}); cleanup().
\* The TLS layer tears the connection down when it fails.
SslTlsError ==
  /\ sslSocket = "handshaking"
  /\ Delivered("checkSSLInfo", "sslError")
  /\ promise' = Resolve("sslError")
  /\ sslSocket' = "error"
  /\ socket' = CleanupSocket("destroyed")
  /\ resolved' = TRUE
  /\ UNCHANGED <<probeKind, notProbe>>

\* checkSSLInfo, socket.on('timeout' | 'error'): resolve(null); cleanup()
SslFail(ev) ==
  /\ Delivered("checkSSLInfo", ev)
  /\ promise' = Resolve(Null)
  /\ socket' = CleanupSocket(SocketAfter(ev))
  /\ resolved' = TRUE
  /\ UNCHANGED <<probeKind, sslSocket, notProbe>>

NextProbe ==
  \/ \E ev \in {"connect", "timeout", "error"} : CheckPortOn(ev)
  \/ GrabBannerConnect
  \/ GrabBannerData
  \/ \E ev \in {"timeout", "error"} : GrabBannerFail(ev)
  \/ SslConnect
  \/ SslSecureConnection
  \/ SslTlsError
  \/ \E ev \in {"timeout", "error"} : SslFail(ev)

\* one call of each probe, under every order of at most MaxEvents events
InitProbe ==
  /\ OrchInit({[timeout |-> 1, output |-> FALSE]}, 1)
  /\ DiscInit({[given |-> FALSE, ports |-> <<>>, quick |-> FALSE]})
  /\ ProbeInit(ProbeKinds)
  /\ AssessIdle
  /\ ScoreIdle
  /\ HttpIdle
  /\ SummaryIdle

SpecProbe == InitProbe /\ [][NextProbe]_vars

\* ------------------------------------------------- vulnerability findings
\* a finding; cvss is kept in tenths (5.3 is 53)
Finding(type, severity, port, evidence, cvss) ==
  [type |-> type, severity |-> severity, port |-> port,
   evidence |-> evidence, cvss |-> cvss]

When(cond, finding) == IF cond THEN <<finding>> ELSE <<>>

\* calculateRiskScore: the weights, in halves (7.5 is 15)
weights_CriticalTypo ==
  [critical |-> 2, high |-> 15, medium |-> 10, low |-> 5, info |-> 0]

weights ==
  [critical |-> 20, high |-> 15, medium |-> 10, low |-> 5, info |-> 0]

\* weights[finding.severity] || 0
WeightOf(severity) ==
  IF severity \in DOMAIN weights THEN weights[severity] ELSE 0

\* for (const finding of findings) score += ...   (in halves)
RECURSIVE SumWeights(_)
SumWeights(fs) ==
  IF fs = <<>> THEN 0 ELSE WeightOf(Head(fs).severity) + SumWeights(Tail(fs))

\* a Math.round that cuts the fraction off
MathRound_Truncates(num, den) == num \div den

\* Math.round of the non-negative fraction num/den: halves go up
MathRound(num, den) == (2 * num + den) \div (2 * den)

\* a minimum that lets its second argument through
MathMin_NoCap(a, b) == b

MathMin(a, b) == IF a < b THEN a ELSE b

\* maxScore > 0 ? Math.min(100, Math.round((score / maxScore) * 100)) : 0
calculateRiskScore(fs) ==
  LET score2   == SumWeights(fs)
      maxScore == Len(fs) * 10
  IN  IF maxScore > 0
        THEN MathMin(100, MathRound(score2 * 100, 2 * maxScore))
        ELSE 0

\* findings.filter(f => f.severity === sev).length
CountSeverity(fs, sev) ==
  Cardinality({n \in 1..Len(fs) : fs[n].severity = sev})

\* ------------------------------------------- vulnerability module: probes
\* What the three HTTP probes of one service can come back with.
\* fetchHeaders: null (request failed or timed out) or the response headers,
\* kept as the set of header names that carry a value
NoHeaders == [ok |-> FALSE, names |-> {}]
Headers(names) == [ok |-> TRUE, names |-> names]
SecurityHeaders ==
  {"strict-transport-security", "x-frame-options", "x-content-type-options"}
BannerHeaders == {"server", "x-powered-by"}
HeaderOutcomes ==
  {NoHeaders} \cup {Headers(names) :
                      names \in SUBSET (SecurityHeaders \cup BannerHeaders)}

\* checkHttpMethods: the entries of the Allow header, [] when the request
\* failed or timed out
MethodOutcomes == {{}, {"GET", "HEAD"}, {"GET", "TRACE"}}

\* checkSSLInfo: null (no TCP connection), {valid: false, error: 'SSL error'}
\* (the handshake failed), or the certificate and protocol data
NoSslInfo ==
  [ok |-> FALSE, valid |-> FALSE, error |-> Null, tlsVersion |-> Null,
   cipher |-> Null]
SslErrorInfo ==
  [ok |-> TRUE, valid |-> FALSE, error |-> "SSL error", tlsVersion |-> Null,
   cipher |-> Null]
SslInfo(valid, tlsVersion, cipher) ==
  [ok |-> TRUE, valid |-> valid, error |-> Null, tlsVersion |-> tlsVersion,
   cipher |-> cipher]
SslOutcomes ==
  {NoSslInfo, SslErrorInfo, SslInfo(TRUE, "TLSv1.3", "TLS_AES_256_GCM_SHA384"),
   SslInfo(TRUE, "TLSv1.2", "ECDHE-RSA-AES128-GCM-SHA256"),
   SslInfo(TRUE, "TLSv1.1", "ECDHE-RSA-AES128-SHA"),
   SslInfo(FALSE, "TLSv1", "RC4-SHA")}

\* parseFloat(str), in tenths: the number a string starts with, NaN when it
\* starts with none (every protocol name of getProtocol() starts with a letter)
ParseFloat(str) ==
  CASE str = "1.3" -> [nan |-> FALSE, tenths |-> 13]
    [] str = "1.2" -> [nan |-> FALSE, tenths |-> 12]
    [] str = "1.1" -> [nan |-> FALSE, tenths |-> 11]
    [] str = "1"   -> [nan |-> FALSE, tenths |-> 10]
    [] OTHER       -> [nan |-> TRUE, tenths |-> 0]

\* x < tenths/10 in JavaScript: false whenever x is NaN
LessThan(x, tenths) == ~x.nan /\ x.tenths < tenths

\* cipher.includes('RC4')
IncludesRC4(cipher) == cipher \in {"RC4-SHA", "RC4-MD5", "ECDHE-RSA-RC4-SHA"}

\* where a check can raise: nowhere, in one of checkHTTPService's three
\* probes (inside its own try), or in the checker as a whole
HttpFaults == {"none", "fetchHeaders", "checkHttpMethods", "checkSSLInfo"}
Faults == HttpFaults \cup {"checker"}

Env(headers, methods, sslInfo, fault) ==
  [headers |-> headers, methods |-> methods, sslInfo |-> sslInfo,
   fault |-> fault]

\* ----------------------------------------- vulnerability module: checkers
\* the header checks without the one for X-Content-Type-Options
HeaderFindings_NoContentType(port, headers) ==
  IF ~headers.ok THEN <<>>
  ELSE When("strict-transport-security" \notin headers.names,
            Finding("Missing HSTS Header", "medium", port,
                    "strict-transport-security header missing", 53))
       \o When("x-frame-options" \notin headers.names,
               Finding("Missing X-Frame-Options", "medium", port,
                       "x-frame-options header missing", 53))
       \o When("server" \in headers.names \/ "x-powered-by" \in headers.names,
               Finding("Information Disclosure", "low", port,
                       "Server, X-Powered-By", 37))

\* checkHTTPService, if (headers) { ... }
HeaderFindings(port, headers) ==
  IF ~headers.ok THEN <<>>
  ELSE When("strict-transport-security" \notin headers.names,
            Finding("Missing HSTS Header", "medium", port,
                    "strict-transport-security header missing", 53))
       \o When("x-frame-options" \notin headers.names,
               Finding("Missing X-Frame-Options", "medium", port,
                       "x-frame-options header missing", 53))
       \o When("x-content-type-options" \notin headers.names,
               Finding("Missing X-Content-Type-Options", "low", port,
                       "x-content-type-options header missing", 37))
       \o When("server" \in headers.names \/ "x-powered-by" \in headers.names,
               Finding("Information Disclosure", "low", port,
                       "Server, X-Powered-By", 37))

\* checkHTTPService, if (methods.includes('TRACE'))
MethodFindings(port, methods) ==
  When("TRACE" \in methods,
       Finding("TRACE Method Enabled", "medium", port,
               "TRACE method available", 53))

\* checkHTTPService, if (sslInfo) { ... }
SslFindings(port, sslInfo) ==
  IF ~sslInfo.ok THEN <<>>
  ELSE When(sslInfo.tlsVersion # Null
              /\ LessThan(ParseFloat(sslInfo.tlsVersion), 12),
            Finding("Weak TLS Version", "high", port, sslInfo.tlsVersion, 75))
       \o When(sslInfo.cipher # Null /\ IncludesRC4(sslInfo.cipher),
               Finding("Weak Cipher", "high", port, sslInfo.cipher, 75))
       \o When(~sslInfo.valid,
               Finding("Invalid SSL Certificate", "medium", port,
                       IF sslInfo.error # Null THEN sslInfo.error
                                               ELSE "Certificate invalid", 53))

\* port === 443 || port === 8443 || service.service === 'https'
IsHTTPS(service) ==
  service.port = 443 \/ service.port = 8443 \/ service.service = "https"

\* checkHTTPService: the three probes in turn inside one try; an exception
\* ends the try and what was pushed before it is returned
checkHTTPService(service, env) ==
  LET port == service.port
      h == HeaderFindings(port, env.headers)
      m == MethodFindings(port, env.methods)
      t == SslFindings(port, env.sslInfo)
  IN  CASE env.fault = "fetchHeaders"     -> <<>>
        [] env.fault = "checkHttpMethods" -> h
        [] env.fault = "checkSSLInfo"     -> h \o m
        [] OTHER -> IF IsHTTPS(service) THEN h \o m \o t ELSE h \o m

checkSSHService(service) ==
  When(service.port = 22,
       Finding("SSH Service Exposed", "info", 22, "Port 22 is open", 0))

\* checkFTPAnonymous(ip) returns false
checkFTPService(service) ==
  When(service.port = 21,
       Finding("FTP Service Exposed", "high", 21, "Port 21 is open", 75))

checkRDPService(service) ==
  When(service.port = 3389,
       Finding("RDP Service Exposed", "high", 3389, "Port 3389 is open", 75))

checkSMTPService(service) ==
  When(service.port = 25,
       Finding("SMTP Open Relay Risk", "high", 25, "Port 25 is open", 75))

\* a database check that wants a banner before it reports
checkDatabaseService_NeedsBanner(service) ==
  When("banner" \in DOMAIN service,
       Finding("Database Exposed", "critical", service.port, service.service, 98))

\* a database check that reports the MySQL port whatever the service
checkDatabaseService_FixedPort(service) ==
  <<Finding("Database Exposed", "critical", 3306, service.service, 98)>>

checkDatabaseService(service) ==
  <<Finding("Database Exposed", "critical", service.port, service.service, 98)>>

\* the switch of checkServiceVulnerabilities: the checker's findings
Dispatch(service, env) ==
  CASE service.service \in {"http", "https", "http-proxy", "https-alt"} ->
         checkHTTPService(service, env)
    [] service.service = "ssh"  -> checkSSHService(service)
    [] service.service = "ftp"  -> checkFTPService(service)
    [] service.service = "rdp"  -> checkRDPService(service)
    [] service.service = "smtp" -> checkSMTPService(service)
    [] service.service \in {"mysql", "mssql", "postgresql", "mongodb"} ->
         checkDatabaseService(service)
    [] OTHER -> <<>>

\* checkServiceVulnerabilities without its try/catch
checkServiceVulnerabilities_NoCatch(service, env) ==
  IF env.fault = "checker"
    THEN [threw |-> TRUE, findings |-> <<>>]
    ELSE [threw |-> FALSE, findings |-> Dispatch(service, env)]

\* checkServiceVulnerabilities: try { switch ... } catch { logger.debug }
\* return findings.  The checker's findings are pushed after its await, so a
\* checker that raises leaves the array empty.
checkServiceVulnerabilities(service, env) ==
  [threw |-> FALSE,
   findings |-> IF env.fault = "checker" THEN <<>> ELSE Dispatch(service, env)]

\* the services discovery can hand over (port, service name)
Service(port, name) == [port |-> port, service |-> name]
\* a service record for which detectServices read a banner
ServiceWithBanner(port, name, banner) ==
  [port |-> port, service |-> name, banner |-> banner,
   version |-> extractVersion(banner)]

ServiceChoices ==
  {Service(80, "http"), Service(443, "https"), Service(22, "ssh"),
   Service(21, "ftp"), Service(3306, "mysql"), Service(9999, "unknown"),
   ServiceWithBanner(3306, "mysql", "5.7.33-log MySQL"),
   Service(27017, "mongodb")}

ServiceLists == UNION {[1..n -> ServiceChoices] : n \in 0..MaxServices}

\* what can happen while service is checked by checkServiceVulnerabilities
Envs(service) ==
  IF service.service \in {"http", "https"}
    THEN {Env(h, m, t, f) :
            h \in {NoHeaders, Headers({}), Headers(SecurityHeaders)},
            m \in {{}, {"GET", "TRACE"}},
            t \in (IF IsHTTPS(service)
                     THEN {NoSslInfo, SslErrorInfo,
                           SslInfo(TRUE, "TLSv1.3", "TLS_AES_256_GCM_SHA384")}
                     ELSE {NoSslInfo}),
            f \in {"none", "checker"}}
    ELSE {Env(NoHeaders, {}, NoSslInfo, f) : f \in {"none", "checker"}}

\* ------------------------------------------ vulnerability module: actions
\* assessVulnerabilities, head of the for loop: call the next service's check,
\* or compute the score and counts and return
AssessLoop ==
  /\ apc = "loop"
  /\ IF svcIndex < Len(assessInput)
       THEN apc' = "checking" /\ UNCHANGED assessment
       ELSE /\ apc' = "returned"
            /\ assessment' =
                 [returned |-> TRUE,
                  findings |-> findings,
                  riskScore |-> calculateRiskScore(findings),
                  criticalCount |-> CountSeverity(findings, "critical"),
                  highCount |-> CountSeverity(findings, "high"),
                  mediumCount |-> CountSeverity(findings, "medium"),
                  lowCount |-> CountSeverity(findings, "low"),
                  infoCount |-> CountSeverity(findings, "info")]
  /\ UNCHANGED <<assessInput, svcIndex, findings, outcomes, notAssess>>

\* await checkServiceVulnerabilities(service, ...) settles:
\* findings.push(...vulns), or the rejection leaves assessVulnerabilities
ServiceChecked ==
  /\ apc = "checking"
  /\ \E env \in Envs(assessInput[svcIndex + 1]) :
       LET r == checkServiceVulnerabilities(assessInput[svcIndex + 1], env)
       IN  /\ outcomes' = Append(outcomes, [fault |-> env.fault,
                                            threw |-> r.threw,
                                            findings |-> r.findings])
           /\ IF r.threw
                THEN apc' = "rejected" /\ UNCHANGED <<svcIndex, findings>>
                ELSE /\ apc' = "loop"
                     /\ svcIndex' = svcIndex + 1
                     /\ findings' = findings \o r.findings
  /\ UNCHANGED <<assessInput, assessment, notAssess>>

NextAssess ==
  \/ AssessLoop
  \/ ServiceChecked

\* one assessment of every list of at most MaxServices services
InitAssess ==
  /\ OrchInit({[timeout |-> 1, output |-> FALSE]}, 1)
  /\ DiscInit({[given |-> FALSE, ports |-> <<>>, quick |-> FALSE]})
  /\ ProbeIdle
  /\ AssessInit(ServiceLists)
  /\ ScoreIdle
  /\ HttpIdle
  /\ SummaryIdle

SpecAssess == InitAssess /\ [][NextAssess]_vars

\* ------------------------------------------------ one checkHTTPService
\* the services checkServiceVulnerabilities passes to checkHTTPService
HttpServices ==
  {Service(80, "http"), Service(443, "https"), Service(8080, "http-proxy"),
   Service(8443, "https-alt")}

\* every way the probes of such a service can come back
HttpCalls ==
  {<<sv, Env(h, m, t, f)>> :
     sv \in HttpServices, h \in HeaderOutcomes, m \in MethodOutcomes,
     t \in SslOutcomes, f \in HttpFaults}

\* checkHTTPService(service, ip, logger) runs and returns its findings
CheckHTTP ==
  /\ ~httpOut.done
  /\ httpOut' = [done |-> TRUE,
                 findings |-> checkHTTPService(httpService, httpEnv)]
  /\ UNCHANGED <<httpService, httpEnv, notHttp>>

NextHttp == CheckHTTP

InitHttp ==
  /\ OrchInit({[timeout |-> 1, output |-> FALSE]}, 1)
  /\ DiscInit({[given |-> FALSE, ports |-> <<>>, quick |-> FALSE]})
  /\ ProbeIdle
  /\ AssessIdle
  /\ ScoreIdle
  /\ HttpInit(HttpCalls)
  /\ SummaryIdle

SpecHttp == InitHttp /\ [][NextHttp]_vars

\* --------------------------------------------- calls of calculateRiskScore
Severities == {"critical", "high", "medium", "low", "info"}

\* a finding of which calculateRiskScore reads the severity only
ScoreFinding(severity) == Finding("finding", severity, 0, Null, 0)

FindingLists ==
  UNION {[1..n -> {ScoreFinding(sev) : sev \in Severities}] :
           n \in 0..MaxFindings}

\* calculateRiskScore(scoreInput)
Score ==
  /\ ~scoreOut.done
  /\ scoreOut' = [done |-> TRUE, score |-> calculateRiskScore(scoreInput)]
  /\ UNCHANGED <<scoreInput, scorePrev, scoreAdded, notScore>>

\* one more finding is pushed and calculateRiskScore is called again
AddFinding(severity) ==
  /\ scoreOut.done
  /\ scoreAdded = Null
  /\ scoreInput' = Append(scoreInput, ScoreFinding(severity))
  /\ scoreAdded' = severity
  /\ scorePrev' = scoreOut
  /\ scoreOut' = [done |-> TRUE, score |-> calculateRiskScore(scoreInput')]
  /\ UNCHANGED notScore

NextScore ==
  \/ Score
  \/ \E sev \in Severities : AddFinding(sev)

\* every findings list of at most MaxFindings findings
InitScore ==
  /\ OrchInit({[timeout |-> 1, output |-> FALSE]}, 1)
  /\ DiscInit({[given |-> FALSE, ports |-> <<>>, quick |-> FALSE]})
  /\ ProbeIdle
  /\ AssessIdle
  /\ ScoreInit(FindingLists)
  /\ HttpIdle
  /\ SummaryIdle

SpecScore == InitScore /\ [][NextScore]_vars

\* ------------------------------------------ orchestrator: generateSummary
\* getRiskLevel with > for >=
getRiskLevel_Strict(score) ==
  IF score > 80 THEN "CRITICAL"
  ELSE IF score > 60 THEN "HIGH"
  ELSE IF score > 40 THEN "MEDIUM"
  ELSE IF score > 20 THEN "LOW"
  ELSE "MINIMAL"

\* getRiskLevel(score)
getRiskLevel(score) ==
  IF score >= 80 THEN "CRITICAL"
  ELSE IF score >= 60 THEN "HIGH"
  ELSE IF score >= 40 THEN "MEDIUM"
  ELSE IF score >= 20 THEN "LOW"
  ELSE "MINIMAL"

\* a blend that leaves the simulations out
BlendedScore_NoSimulations(findingsScore, critical, high) ==
  MathRound(6 * findingsScore, 10)

\* Math.round(findingsScore * 0.6 + critical * 10 + high * 5), in tenths
\* under the rounding
BlendedScore(findingsScore, critical, high) ==
  MathRound(6 * findingsScore + 100 * critical + 50 * high, 10)

\* vulnResults.riskScore || 0
FindingsScoreOf(res) ==
  IF res.vulnerabilities.present THEN res.vulnerabilities.riskScore ELSE 0

\* exploitResults.riskDistribution?.critical || 0, and the same for high
SimCountOf(res, severity) ==
  IF res.exploits.present THEN res.exploits.riskDistribution[severity] ELSE 0

\* generateSummary(): riskScore: Math.min(100, riskScore),
\* riskLevel: this.getRiskLevel(riskScore)
GenerateSummary ==
  /\ ~summaryOut.done
  /\ LET riskScore == BlendedScore(FindingsScoreOf(summaryIn),
                                   SimCountOf(summaryIn, "critical"),
                                   SimCountOf(summaryIn, "high"))
     IN  summaryOut' = [done |-> TRUE,
                        raw |-> riskScore,
                        riskScore |-> MathMin(100, riskScore),
                        riskLevel |-> getRiskLevel(riskScore)]
  /\ UNCHANGED <<summaryIn, notSummary>>

NextSummary == GenerateSummary

\* every vulnerability score calculateRiskScore can return and up to MaxSims
\* critical and high simulations, each part present or missing
SummaryInputs ==
  {Results(hs, f, hd, c, h) :
     hs \in BOOLEAN, f \in 0..100, hd \in BOOLEAN,
     c \in 0..MaxSims, h \in 0..MaxSims}

InitSummary ==
  /\ OrchInit({[timeout |-> 1, output |-> FALSE]}, 1)
  /\ DiscInit({[given |-> FALSE, ports |-> <<>>, quick |-> FALSE]})
  /\ ProbeIdle
  /\ AssessIdle
  /\ ScoreIdle
  /\ HttpIdle
  /\ SummaryInit(SummaryInputs)

SpecSummary == InitSummary /\ [][NextSummary]_vars

\* =================================================================== claims
Last(wf) == wf[Len(wf)]

TimedOutMessage(p) == <<PhaseNames[p], "phase timed out">>

\* the operation of the current run's phase p is still in flight
InFlight(p) == \E o \in ops : o.run = runs /\ o.phase = p

\* C1 (as claimed): one deadline for the whole run, set when execute starts:
\* no phase is still being awaited once more than options.timeout has passed
\* since the start of execute.
C1_SharedDeadline ==
  (pc = "await" /\ Last(workflow).status = "running")
    => now <= startTime + options.timeout

\* the step in which the timer callback runs: the timer goes from armed to
\* not armed while the awaited operation is still in flight
TimerFired ==
  pc = "await" /\ timer.armed /\ ~timer'.armed /\ \E o \in ops' : Awaited(o)

\* C2: when the timer fires before the phase's operation settles, the phase's
\* record becomes failed with the timeout error naming the phase, execute
\* rejects with that error, and from then on no record is added and no
\* operation is started.
C2_TimeoutAbortsPipeline ==
  /\ [][TimerFired =>
          /\ workflow' = SetLast(workflow,
                           Record(PhaseNames[cur], "failed", TimedOutMessage(cur)))
          /\ thrown' = TimedOutMessage(cur)
          /\ pc' = "failed"]_vars
  /\ [][(\E p \in 1..5 : thrown = TimedOutMessage(p)) =>
          /\ workflow' = workflow
          /\ started' = started
          /\ pc' = "failed"]_vars

C2_Witness ==
  /\ pc = "failed"
  /\ thrown = TimedOutMessage(2)
  /\ Last(workflow) = Record(PhaseNames[2], "failed", TimedOutMessage(2))
  /\ InFlight(2)

\* C3: Discovery failing, by an unresolvable target, an error or the timeout,
\* leaves its record failed; then there is no later record and no later
\* operation was started; and a later phase is only ever started with
\* discovery data present.
C3_DiscoveryFailureStops ==
  /\ (cur = 1 /\ pc = "failed") => workflow[1].status = "failed"
  /\ (Len(workflow) >= 1 /\ workflow[1].status = "failed") =>
        /\ Len(workflow) = 1
        /\ pc = "failed"
        /\ \A q \in 2..5 : <<runs, q>> \notin started
  /\ \A q \in 2..5 : <<runs, q>> \in started => results["discovery"] # 0

C3_Witness ==
  /\ Len(workflow) = 1
  /\ workflow[1] = Record("Discovery", "failed", <<"Could not resolve target:", "target">>)
  /\ pc = "failed"

\* C4 (as claimed): every record enters the list as pending, goes to running,
\* then to exactly one of completed or failed, and stays there.
C4_PendingRunningTerminal ==
  [][\A n \in 1..Len(workflow') :
       IF n > Len(workflow)
         THEN workflow'[n].status = "pending"
         ELSE \/ workflow'[n].status = workflow[n].status
              \/ workflow[n].status = "pending" /\ workflow'[n].status = "running"
              \/ /\ workflow[n].status = "running"
                 /\ workflow'[n].status \in {"completed", "failed"}]_vars

\* C4 (amended): every record enters the list as running (pending is never
\* used), changes status at most once, to completed or to failed, and keeps
\* it; records are never removed and none re-enters running.
C4_RunningThenTerminal ==
  [][/\ Len(workflow') >= Len(workflow)
     /\ \A n \in 1..Len(workflow') :
          IF n > Len(workflow)
            THEN workflow'[n].status = "running"
            ELSE \/ workflow'[n].status = workflow[n].status
                 \/ /\ workflow[n].status = "running"
                    /\ workflow'[n].status \in {"completed", "failed"}]_vars

C4_Witness ==
  /\ Len(workflow) = 3
  /\ workflow[1].status = "completed"
  /\ workflow[2].status = "completed"
  /\ workflow[3].status = "failed"

\* C5: the recorded names are a prefix of the fixed phase order, every record
\* but the last is completed, and Report Generation is recorded only with an
\* output path configured and the four phases before it completed.
C5_FixedPhaseOrder ==
  /\ Len(workflow) <= 5
  /\ \A n \in 1..Len(workflow) : workflow[n].name = PhaseNames[n]
  /\ \A n \in 1..(Len(workflow) - 1) : workflow[n].status = "completed"
  /\ Len(workflow) = 5 => options.output

C5_Witness ==
  /\ Len(workflow) = 5
  /\ workflow[5].name = "Report Generation"
  /\ workflow[5].status = "completed"

C7_WritesOnlyWhileRunning ==
  [][\A p \in 1..4 :
       results'[ResultKeys[p]] # results[ResultKeys[p]] =>
         /\ pc \notin {"done", "failed"}
         /\ Len(workflow) >= p
         /\ workflow[p].status = "running"]_vars

\* C8: whenever the Exploit Simulation or Attack Surface Analysis record is
\* failed, it carries the error message execute rejected with, and
\* results.discovery and results.vulnerabilities still hold what this run
\* computed.
C8_FailureKeepsEarlierResults ==
  \A p \in 3..4 :
    (Len(workflow) >= p /\ workflow[p].status = "failed") =>
      /\ workflow[p].error # NoError
      /\ workflow[p].error = thrown
      /\ results["discovery"] = runs
      /\ results["vulnerabilities"] = runs

C8_Witness ==
  /\ Len(workflow) = 4
  /\ workflow[4].status = "failed"
  /\ results["discovery"] = 1
  /\ results["vulnerabilities"] = 1

\* the error message contains the name of the phase that failed
NamesPhase(error, p) == \E n \in 1..Len(error) : error[n] = PhaseNames[p]

\* C9 (as claimed): every error execute rejects with names the failed phase.
C9_EveryErrorNamesPhase ==
  thrown # NoError => NamesPhase(thrown, cur)

\* C9 (amended): a timeout error names the failed phase; an error of the
\* phase operation is propagated as it was thrown and names no phase; either
\* way the failed phase's record holds the same message under its name.
C9_TimeoutNamesPhaseOthersUnchanged ==
  thrown # NoError =>
    /\ pc = "failed"
    /\ Last(workflow) = Record(PhaseNames[cur], "failed", thrown)
    /\ InFlight(cur) => thrown = TimedOutMessage(cur)
    /\ \/ thrown = TimedOutMessage(cur)
       \/ thrown = <<"error thrown in", OpNames[cur]>> /\ ~NamesPhase(thrown, cur)
       \/ /\ cur = 1
          /\ thrown = <<"Could not resolve target:", "target">>
          /\ ~NamesPhase(thrown, cur)

C9_Witness ==
  /\ thrown = <<"Could not resolve target:", "target">>
  /\ Last(workflow).name = "Discovery"
  /\ Last(workflow).error = thrown

RECURSIVE IsSubsequence(_, _)
\* s can be had from t by deleting elements
IsSubsequence(s, t) ==
  IF s = <<>> THEN TRUE
  ELSE IF t = <<>> THEN FALSE
  ELSE IF Head(s) = Head(t) THEN IsSubsequence(Tail(s), Tail(t))
  ELSE IsSubsequence(s, Tail(t))

PortsOf(recs) == [a \in 1..Len(recs) |-> recs[a].port]

\* the part of C10 about membership, state, service name and order
ScanPortsShape ==
  /\ \A a \in 1..Len(openPorts) :
       /\ \E b \in 1..Len(ports) : ports[b] = openPorts[a].port
       /\ openPorts[a].state = "open"
       /\ \/ openPorts[a].service = "unknown"
          \/ \E q \in DOMAIN CommonPortServices :
               openPorts[a].service = CommonPortServices[q]
  /\ IsSubsequence(PortsOf(openPorts), SubSeq(ports, 1, i))

\* C10 (as claimed): for every port list, scanPorts' result holds only ports
\* of the list, every record open with a service name of the table or
\* unknown, in probe order, and no port twice.
C10_ScanPortsUnique ==
  /\ ScanPortsShape
  /\ \A a, b \in 1..Len(openPorts) :
       a # b => openPorts[a].port # openPorts[b].port

\* C11: cancelling the port scan is cooperative.  The flag is looked at
\* between iterations only: once it is set no step starts a probe, and the
\* scan loop ends early only because of it.  Setting the flag leaves the
\* probe in flight alone; that probe still ends by moving on to the next
\* port, and while it is in flight with the flag set, recording its port as
\* open remains possible.
C11_CooperativeCancellation ==
  /\ [](dpc \in {"detect", "banner", "returned"} /\ i < Len(ports)
          => signal.aborted)
  /\ [](dpc = "probing" /\ signal.aborted /\ ports[i + 1] \in OpenablePorts
          => ENABLED (ProbeDone /\ openPorts' =
                        Append(openPorts, PortRecord(ports[i + 1]))))
  /\ [][/\ signal.aborted /\ dpc # "probing" => dpc' # "probing"
        /\ dpc = "probing" /\ ~signal.aborted /\ signal'.aborted
             => dpc' = "probing" /\ i' = i /\ openPorts' = openPorts
        /\ dpc = "probing" /\ dpc' # "probing"
             => /\ dpc' = "loop"
                /\ i' = i + 1
                /\ Len(openPorts') >= Len(openPorts)]_vars

\* the flag was set while the first of two ports was being probed: that
\* port was recorded as open and the second one was never probed
C11_Witness ==
  /\ signal.aborted
  /\ dpc = "detect"
  /\ Len(ports) = 2
  /\ i = 1
  /\ Len(openPorts) = 1
  /\ openPorts[1].port = ports[1]

\* C12: checkPort never raises.  Whatever the order of the socket events
\* connect, error and timeout, its promise is pending exactly until the first
\* event, is then resolved (never rejected) with the boolean the first event
\* fixes, true for connect and false for error and timeout, and every later
\* event leaves that result as it is.
C12_CheckPortFirstEventWins ==
  probeKind = "checkPort" =>
    /\ promise.state \in {"pending", "resolved"}
    /\ promise.state = "pending" <=> eventsSeen = <<>>
    /\ eventsSeen # <<>> =>
         promise.value = (IF eventsSeen[1] = "connect" THEN "true" ELSE "false")

\* an error closed the probe and a connect came after it: still false
C12_Witness ==
  /\ probeKind = "checkPort"
  /\ Len(eventsSeen) >= 2
  /\ eventsSeen[1] = "error"
  /\ eventsSeen[2] = "connect"
  /\ promise = [state |-> "resolved", value |-> "false"]

\* C13: every probe (checkPort, grabBanner, checkSSLInfo) has closed its
\* socket by the time its promise is settled, on every path: no settled
\* probe is left with a socket that is neither destroyed nor ended.
C13_SocketClosedWhenSettled ==
  probeKind \in ProbeKinds /\ promise.state # "pending"
    => socket \in {"destroyed", "ended"}

\* the findings the checks returned, service after service
RECURSIVE Flatten(_)
Flatten(outs) ==
  IF outs = <<>> THEN <<>> ELSE Head(outs).findings \o Flatten(Tail(outs))

FindingTypes ==
  {"Missing HSTS Header", "Missing X-Frame-Options",
   "Missing X-Content-Type-Options", "Information Disclosure",
   "TRACE Method Enabled", "Weak TLS Version", "Weak Cipher",
   "Invalid SSL Certificate", "SSH Service Exposed", "FTP Service Exposed",
   "RDP Service Exposed", "SMTP Open Relay Risk", "Database Exposed"}

\* C14: the checkers are isolated.  An exception raised while one service is
\* checked stays inside that service's check: the check returns (an empty
\* list) instead of raising, assessVulnerabilities never rejects, every
\* service of the list is checked, and the result is made of the findings of
\* the checks alone, with no error field and no error entry.
C14_CheckersIsolated ==
  /\ apc # "rejected"
  /\ \A n \in 1..Len(outcomes) :
       /\ ~outcomes[n].threw
       /\ outcomes[n].fault = "checker" => outcomes[n].findings = <<>>
  /\ apc = "returned" =>
       /\ Len(outcomes) = Len(assessInput)
       /\ assessment.findings = Flatten(outcomes)
       /\ DOMAIN assessment =
            {"returned", "findings", "riskScore", "criticalCount",
             "highCount", "mediumCount", "lowCount", "infoCount"}
       /\ \A n \in 1..Len(assessment.findings) :
            assessment.findings[n].type \in FindingTypes

\* the first service's check raised, the second was checked all the same
\* and its findings were returned
C14_Witness ==
  /\ apc = "returned"
  /\ Len(assessInput) = 2
  /\ outcomes[1].fault = "checker"
  /\ outcomes[2].fault = "none"
  /\ outcomes[2].findings # <<>>
  /\ assessment.findings = outcomes[2].findings

TypesOf(fs) == {fs[n].type : n \in 1..Len(fs)}

HeaderFindingTypes ==
  {"Missing HSTS Header", "Missing X-Frame-Options",
   "Missing X-Content-Type-Options", "Information Disclosure"}

SslFindingTypes == {"Weak TLS Version", "Weak Cipher", "Invalid SSL Certificate"}

\* C15: a failed probe shows only as missing data.  When fetchHeaders failed
\* (null) checkHTTPService returns no header finding, when checkHttpMethods
\* failed (no methods) no TRACE finding, and when checkSSLInfo failed, be it
\* that no connection was made or that the TLS handshake failed, no TLS
\* finding; no finding carries an error field.
C15_FailedProbeLeavesNoFinding ==
  httpOut.done =>
    /\ ~httpEnv.headers.ok =>
         TypesOf(httpOut.findings) \cap HeaderFindingTypes = {}
    /\ httpEnv.methods = {} =>
         "TRACE Method Enabled" \notin TypesOf(httpOut.findings)
    /\ httpEnv.sslInfo \in {NoSslInfo, SslErrorInfo} =>
         TypesOf(httpOut.findings) \cap SslFindingTypes = {}
    /\ \A n \in 1..Len(httpOut.findings) :
         "error" \notin DOMAIN httpOut.findings[n]

\* the number of findings of severity sev in fs
HowMany(fs, sev) == Cardinality({n \in 1..Len(fs) : fs[n].severity = sev})

\* the sum of the stated weights (critical 10, high 7.5, medium 5, low 2.5,
\* info 0), in quarters
StatedSum4(fs) ==
  40 * HowMany(fs, "critical") + 30 * HowMany(fs, "high")
    + 20 * HowMany(fs, "medium") + 10 * HowMany(fs, "low")

\* r is the fraction a/b (b > 0) rounded to the nearest integer, halves up
IsRounded(r, a, b) == 2 * b * r - b <= 2 * a /\ 2 * a < 2 * b * r + b

\* C16: calculateRiskScore returns round(min(100, sum/(n*10)*100)) for the
\* sum of the weights of its n findings, 0 for the empty list, and in every
\* case an integer from 0 to 100.  (sum/(n*10)*100 is 5*sum4/(2n) for the sum
\* in quarters; the minimum with 100 = 200n/(2n) is taken on the numerator.)
C16_ScoreFormula ==
  scoreOut.done =>
    /\ scoreOut.score \in 0..100
    /\ scoreInput = <<>> => scoreOut.score = 0
    /\ scoreInput # <<>> =>
         LET n == Len(scoreInput)
             a == 5 * StatedSum4(scoreInput)
         IN  IsRounded(scoreOut.score, IF a < 200 * n THEN a ELSE 200 * n, 2 * n)

\* one low and one info finding: 2.5 / 20 * 100 = 12.5, returned as 13
C16_Witness ==
  /\ scoreOut.done
  /\ Len(scoreInput) = 2
  /\ scoreInput[1].severity = "low"
  /\ scoreInput[2].severity = "info"
  /\ scoreOut.score = 13

SeverityRank(sev) ==
  CASE sev = "info" -> 0 [] sev = "low" -> 1 [] sev = "medium" -> 2
    [] sev = "high" -> 3 [] sev = "critical" -> 4

\* C17: adding a finding whose severity is strictly above that of every
\* finding already in the list never lowers calculateRiskScore.
C17_HigherSeverityNeverLowers ==
  (/\ scoreAdded # Null
   /\ \A n \in 1..(Len(scoreInput) - 1) :
        SeverityRank(scoreInput[n].severity) < SeverityRank(scoreAdded))
    => scoreOut.score >= scorePrev.score

\* a high finding joined a low one: the score went from 25 to 50
C17_Witness ==
  /\ scoreAdded = "high"
  /\ Len(scoreInput) = 2
  /\ scoreInput[1].severity = "low"
  /\ scorePrev = [done |-> TRUE, score |-> 25]
  /\ scoreOut = [done |-> TRUE, score |-> 50]

\* ten times findingsScore*0.6 + criticalSimCount*10 + highSimCount*5, the
\* absent values counted as 0
StatedBlend10 ==
  6 * (IF summaryIn.vulnerabilities.present
         THEN summaryIn.vulnerabilities.riskScore ELSE 0)
    + (IF summaryIn.exploits.present
         THEN 100 * summaryIn.exploits.riskDistribution.critical
                + 50 * summaryIn.exploits.riskDistribution.high
         ELSE 0)

\* C18 as stated: the summary's risk score equals
\* clamp(0, 100, findingsScore*0.6 + criticalSimCount*10 + highSimCount*5)
\* (compared in tenths).
C18_ScoreIsClampedBlend ==
  summaryOut.done =>
    10 * summaryOut.riskScore =
      (IF StatedBlend10 < 0 THEN 0
       ELSE IF StatedBlend10 > 1000 THEN 1000 ELSE StatedBlend10)

\* C18, amended: the summary's risk score is the blend rounded to the
\* nearest integer and then capped at 100: it is 100 when the blend is at
\* least 99.5 and else the integer nearest to the blend.
C18_ScoreIsRoundedBlendCapped ==
  summaryOut.done =>
    IF StatedBlend10 >= 995
      THEN summaryOut.riskScore = 100
      ELSE IsRounded(summaryOut.riskScore, StatedBlend10, 10)

\* findings score 51 with one critical and one high simulation:
\* 30.6 + 10 + 5 = 45.6, reported as 46
C18_Witness ==
  /\ summaryOut.done
  /\ summaryIn = Results(TRUE, 51, TRUE, 1, 1)
  /\ summaryOut.riskScore = 46

\* C19: getRiskLevel maps a score of 80 or more to CRITICAL, 60..79 to HIGH,
\* 40..59 to MEDIUM, 20..39 to LOW and anything below 20 to MINIMAL; in
\* particular 0, 19 are MINIMAL, 20, 39 LOW, 40, 59 MEDIUM, 60, 79 HIGH and
\* 80, 100 CRITICAL.  (raw is the score getRiskLevel was called with.)
C19_RiskLevelThresholds ==
  summaryOut.done =>
    /\ summaryOut.raw >= 80 <=> summaryOut.riskLevel = "CRITICAL"
    /\ summaryOut.raw \in 60..79 <=> summaryOut.riskLevel = "HIGH"
    /\ summaryOut.raw \in 40..59 <=> summaryOut.riskLevel = "MEDIUM"
    /\ summaryOut.raw \in 20..39 <=> summaryOut.riskLevel = "LOW"
    /\ summaryOut.raw < 20 <=> summaryOut.riskLevel = "MINIMAL"
    /\ \A b \in {<<0, "MINIMAL">>, <<19, "MINIMAL">>, <<20, "LOW">>,
                 <<39, "LOW">>, <<40, "MEDIUM">>, <<59, "MEDIUM">>,
                 <<60, "HIGH">>, <<79, "HIGH">>, <<80, "CRITICAL">>,
                 <<100, "CRITICAL">>} :
         summaryOut.raw = b[1] => summaryOut.riskLevel = b[2]

\* getRiskLevel was called with exactly 80 and answered CRITICAL
C19_Witness ==
  /\ summaryOut.done
  /\ summaryOut.raw = 80
  /\ summaryOut.riskLevel = "CRITICAL"

\* the three findings of a response without any security header
ThreeHeaderFindings(port) ==
  <<[type |-> "Missing HSTS Header", severity |-> "medium", port |-> port,
     evidence |-> "strict-transport-security header missing", cvss |-> 53],
    [type |-> "Missing X-Frame-Options", severity |-> "medium", port |-> port,
     evidence |-> "x-frame-options header missing", cvss |-> 53],
    [type |-> "Missing X-Content-Type-Options", severity |-> "low",
     port |-> port, evidence |-> "x-content-type-options header missing",
     cvss |-> 37]>>

\* a plain-HTTP service answered the header request with none of the three
\* security headers and neither Server nor X-Powered-By
BareHttpResponse ==
  /\ httpOut.done
  /\ ~IsHTTPS(httpService)
  /\ httpEnv.fault # "fetchHeaders"
  /\ httpEnv.headers = Headers({})

\* C20 as stated: for such a service the assessor produces exactly the three
\* findings missing HSTS (medium, 5.3), missing X-Frame-Options (medium, 5.3)
\* and missing X-Content-Type-Options (low, 3.7), and no
\* information-disclosure finding.
C20_ExactlyThreeFindings ==
  BareHttpResponse =>
    /\ httpOut.findings = ThreeHeaderFindings(httpService.port)
    /\ "Information Disclosure" \notin TypesOf(httpOut.findings)

\* the OPTIONS probe found TRACE in the Allow header
TraceAdvertised ==
  httpEnv.fault # "checkHttpMethods" /\ "TRACE" \in httpEnv.methods

\* C20, amended: for such a service the assessor produces the three header
\* findings and no information-disclosure finding; they are all its findings
\* unless the OPTIONS probe finds TRACE allowed, which adds a fourth finding,
\* TRACE Method Enabled (medium, 5.3).
C20_ThreeFindingsPlusTrace ==
  BareHttpResponse =>
    /\ Len(httpOut.findings) >= 3
    /\ SubSeq(httpOut.findings, 1, 3) = ThreeHeaderFindings(httpService.port)
    /\ "Information Disclosure" \notin TypesOf(httpOut.findings)
    /\ ~TraceAdvertised => Len(httpOut.findings) = 3
    /\ TraceAdvertised =>
         /\ Len(httpOut.findings) = 4
         /\ httpOut.findings[4].type = "TRACE Method Enabled"
         /\ httpOut.findings[4].severity = "medium"
         /\ httpOut.findings[4].cvss = 53

\* port 80, bare response, OPTIONS answered without TRACE: three findings
C20_Witness ==
  /\ BareHttpResponse
  /\ httpService = Service(80, "http")
  /\ httpEnv.fault = "none"
  /\ httpEnv.methods = {"GET", "HEAD"}
  /\ Len(httpOut.findings) = 3

DatabaseNames == {"mysql", "mssql", "postgresql", "mongodb"}

\* C21: every open service named mysql, mssql, postgresql or mongodb gets
\* exactly one finding from its check, Database Exposed, critical, CVSS 9.8,
\* on the service's port, whether or not a banner or version was recorded
\* for it (the check itself having raised nothing).
C21_DatabaseExposedOnce ==
  \A n \in 1..Len(outcomes) :
    assessInput[n].service \in DatabaseNames /\ outcomes[n].fault = "none"
      => /\ Len(outcomes[n].findings) = 1
         /\ outcomes[n].findings[1].type = "Database Exposed"
         /\ outcomes[n].findings[1].severity = "critical"
         /\ outcomes[n].findings[1].cvss = 98
         /\ outcomes[n].findings[1].port = assessInput[n].port

\* mysql on 3306 once without and once with a banner: one critical finding
\* each
C21_Witness ==
  /\ apc = "returned"
  /\ Len(assessInput) = 2
  /\ assessInput[1] = Service(3306, "mysql")
  /\ "banner" \in DOMAIN assessInput[2]
  /\ assessInput[2].service = "mysql"
  /\ outcomes[1].fault = "none"
  /\ outcomes[2].fault = "none"
  /\ assessment.criticalCount = 2
  /\ Len(assessment.findings) = 2

\* the list quick mode starts from: the explicit one when given, else the
\* default one
QuickSource ==
  IF scanOptions.given THEN scanOptions.ports
  ELSE <<21, 22, 23, 25, 53, 80, 110, 135, 139, 143, 443, 445, 993, 995,
         1433, 3306, 3389, 5432, 5900, 8080, 8443>>

QuickLength == IF Len(QuickSource) < 8 THEN Len(QuickSource) ELSE 8

ProtocolsBelow12 == {"SSLv3", "TLSv1", "TLSv1.1"}
ProtocolsFrom12 == {"TLSv1.2", "TLSv1.3"}

\* checkSSLInfo reported a finished handshake and every probe of the HTTPS
\* service ran
HandshakeSucceeded ==
  /\ httpOut.done
  /\ IsHTTPS(httpService)
  /\ httpEnv.fault = "none"
  /\ httpEnv.sslInfo.ok
  /\ httpEnv.sslInfo.error = Null

\* C23: for an HTTPS service whose TLS handshake succeeds, a negotiated
\* protocol below 1.2 (TLSv1, TLSv1.1) always gives a high Weak TLS Version
\* finding with CVSS 7.5, and a protocol of 1.2 or above never gives one.
C23_WeakTlsVersionReported ==
  HandshakeSucceeded =>
    /\ httpEnv.sslInfo.tlsVersion \in ProtocolsBelow12 =>
         \E n \in 1..Len(httpOut.findings) :
           /\ httpOut.findings[n].type = "Weak TLS Version"
           /\ httpOut.findings[n].severity = "high"
           /\ httpOut.findings[n].cvss = 75
    /\ httpEnv.sslInfo.tlsVersion \in ProtocolsFrom12 =>
         "Weak TLS Version" \notin TypesOf(httpOut.findings)

\* operation o belongs to a phase that is no longer waited for
Abandoned(o) == pc # "await" \/ o.run # runs \/ o.phase # cur

\* C24: a terminal status is absorbing.  A record that is completed or failed
\* is never changed or removed again.  When the operation of a phase that is
\* no longer waited for (its phase failed by the timeout) resolves or rejects,
\* no record is rewritten and no phase starts.  A completed phase cannot be
\* marked failed later, because a timer is armed only while the last record
\* is running: it is cleared in the step in which the operation settles.
C24_TerminalStatusAbsorbing ==
  /\ [](timer.armed =>
          /\ pc \in {"await", "sync"}
          /\ workflow # <<>>
          /\ workflow[Len(workflow)].status = "running")
  /\ [][/\ \A n \in 1..Len(workflow) :
             workflow[n].status \in {"completed", "failed"}
               => n <= Len(workflow') /\ workflow'[n] = workflow[n]
        /\ \A o \in ops \ ops' :
             Abandoned(o) =>
               /\ workflow' = workflow
               /\ started' = started
               /\ pc' = pc
               /\ cur' = cur]_vars

\* Discovery was failed by the timeout; its operation resolved afterwards
\* (it stored its result) and the record is still the failed one
C24_Witness ==
  /\ runs = 1
  /\ pc = "failed"
  /\ Len(workflow) = 1
  /\ workflow[1] = Record("Discovery", "failed", <<"Discovery", "phase timed out">>)
  /\ ops = {}
  /\ results["discovery"] = 1

\* how many of the three flags of getStatus() are true
FlagsTrue(st) ==
  (IF st.running THEN 1 ELSE 0) + (IF st.completed THEN 1 ELSE 0)
    + (IF st.failed THEN 1 ELSE 0)

\* C25: with execute called at most once, in every state exactly one of
\* getStatus().running, .completed and .failed is true; completed is true
\* while the phase list is still empty; at most one record is running and it
\* is the last one.
C25_ExactlyOneStatusFlag ==
  /\ FlagsTrue(getStatus) = 1
  /\ workflow = <<>> => getStatus.completed
  /\ \A n \in 1..Len(workflow) :
       workflow[n].status = "running" => n = Len(workflow)

\* the second phase is under way: running and nothing else
C25_Witness ==
  /\ pc = "await"
  /\ Len(workflow) = 2
  /\ workflow[1].status = "completed"
  /\ workflow[2].status = "running"
  /\ getStatus = [running |-> TRUE, completed |-> FALSE, failed |-> FALSE]

\* discoverTarget is past dnsLookup and has not settled
Scanning == dpc \in {"loop", "probing", "detect", "banner"}

\* discoverTarget has settled
Settled == dpc \in {"returned", "threw"}

\* C26: when discoverTarget's timer fires during the port scan, discovery
\* does not fail.  The scan loop stops before the next port, banner grabbing
\* runs for every open port found so far, and discoverTarget returns that
\* partial list while totalPortsScanned is the full length of the port list.
\* The timer is cleared on every exit path: once discoverTarget has settled
\* no timer is armed and the flag does not change.
C26_TimeoutGivesPartialResult ==
  /\ [](signal.aborted /\ Scanning => ENABLED NextDiscovery)
  /\ [](signal.aborted /\ dpc = "returned" =>
          /\ discovery.totalPortsScanned = Len(ports)
          /\ i <= Len(ports)
          /\ IsSubsequence(PortsOf(openPorts), SubSeq(ports, 1, i))
          /\ PortsOf(discovery.openPorts) = PortsOf(openPorts))
  /\ [](Settled => ~timeoutId)
  /\ [][/\ signal.aborted /\ Scanning => dpc' # "threw"
        /\ signal.aborted /\ dpc = "loop" => dpc' = "detect" /\ i' = i
        /\ signal.aborted /\ dpc = "detect" /\ detected < Len(openPorts)
             => dpc' = "banner"
        /\ Settled => signal' = signal /\ dpc' = dpc]_vars

\* the timer fired while the first of three ports was being probed: that
\* port was found open, the other two were never probed, and discoverTarget
\* returned one service with totalPortsScanned 3
C26_Witness ==
  /\ dpc = "returned"
  /\ signal.aborted
  /\ Len(ports) = 3
  /\ i = 1
  /\ Len(discovery.openPorts) = 1
  /\ discovery.openPorts[1].port = ports[1]
  /\ discovery.totalPortsScanned = 3

\* C27: execute does not reset the phase list or the results.  A call of
\* execute leaves results as they are and appends its first record to the
\* records of the earlier run; every step keeps the earlier records in place
\* under their names; so once getStatus().failed is true it stays true and
\* getStatus().completed stays false, whatever the later run does.
C27_ExecuteAppendsToEarlierRun ==
  [][/\ runs' # runs =>
          /\ workflow' = Append(workflow, Record("Discovery", "running", NoError))
          /\ results' = results
     /\ Len(workflow') >= Len(workflow)
     /\ \A n \in 1..Len(workflow) :
          /\ workflow'[n].name = workflow[n].name
          /\ n < Len(workflow) => workflow'[n] = workflow[n]
     /\ getStatus.failed => getStatus'.failed /\ ~getStatus'.completed]_vars

\* the first run failed in Discovery, the second run completed all four
\* phases: five records, failed still true, completed false
C27_Witness ==
  /\ runs = 2
  /\ pc = "done"
  /\ Len(workflow) = 5
  /\ workflow[1].status = "failed"
  /\ \A n \in 2..5 : workflow[n].status = "completed"
  /\ getStatus = [running |-> FALSE, completed |-> FALSE, failed |-> TRUE]

\* the fields of a service record without and with a banner
BareFields == {"port", "service", "state"}
BannerFields == {"port", "service", "state", "banner", "version"}

\* C28: detectServices returns exactly one service record per open port, in
\* the same order, with the same port and service name, whether grabBanner
\* gave a banner, gave nothing or failed; a record has a banner and a version
\* only when a non-empty banner was read.  So in every discovery result
\* openPortCount is the length of openPorts.
C28_OneServicePerOpenPort ==
  /\ [](dpc \in {"detect", "banner", "returned"} =>
          /\ Len(services) = detected
          /\ detected <= Len(openPorts)
          /\ \A n \in 1..detected :
               /\ services[n].port = openPorts[n].port
               /\ services[n].service = openPorts[n].service
               /\ services[n].state = "open"
               /\ \/ DOMAIN services[n] = BareFields
                  \/ /\ DOMAIN services[n] = BannerFields
                     /\ services[n].banner \in Banners \ {Null, ""})
  /\ [](dpc = "returned" =>
          /\ discovery.openPorts = services
          /\ Len(services) = Len(openPorts)
          /\ discovery.openPortCount = Len(discovery.openPorts))
  /\ [][dpc = "banner" =>
          /\ dpc' \in {"banner", "detect"}
          /\ dpc' = "detect" =>
               /\ Len(services') = Len(services) + 1
               /\ SubSeq(services', 1, Len(services)) = services]_vars

\* two open ports, a banner was read on the first and none on the second
C28_Witness ==
  /\ dpc = "returned"
  /\ discovery.openPortCount = 2
  /\ Len(discovery.openPorts) = 2
  /\ DOMAIN discovery.openPorts[1] = BannerFields
  /\ DOMAIN discovery.openPorts[2] = BareFields
  /\ discovery.openPorts[1].port = openPorts[1].port
  /\ discovery.openPorts[2].port = openPorts[2].port

RECURSIVE GroupedBy(_, _)
\* fs can be cut into consecutive groups, one per service of svcs in order
\* (a group may be empty), each finding carrying the port of its service
GroupedBy(fs, svcs) ==
  IF fs = <<>> THEN TRUE
  ELSE IF svcs = <<>> THEN FALSE
  ELSE IF Head(fs).port = Head(svcs).port THEN GroupedBy(Tail(fs), svcs)
  ELSE GroupedBy(fs, Tail(svcs))

\* C29: in every result of assessVulnerabilities the five severity counts add
\* up to the number of findings, every finding's severity is one of critical,
\* high, medium, low and info, every finding's port is the port of one of the
\* services passed in, and the findings are grouped in the order of those
\* services.
C29_CountsCoverFindings ==
  apc = "returned" =>
    /\ assessment.criticalCount + assessment.highCount + assessment.mediumCount
         + assessment.lowCount + assessment.infoCount = Len(assessment.findings)
    /\ \A n \in 1..Len(assessment.findings) :
         /\ assessment.findings[n].severity
              \in {"critical", "high", "medium", "low", "info"}
         /\ \E k \in 1..Len(assessInput) :
              assessment.findings[n].port = assessInput[k].port
    /\ GroupedBy(assessment.findings, assessInput)

\* two services on different ports, each with findings: those of the first
\* come first
C29_Witness ==
  /\ apc = "returned"
  /\ Len(assessInput) = 2
  /\ assessInput[1].port # assessInput[2].port
  /\ Len(assessment.findings) >= 3
  /\ assessment.findings[1].port = assessInput[1].port
  /\ assessment.findings[Len(assessment.findings)].port = assessInput[2].port
  /\ assessment.criticalCount = 1
  /\ assessment.mediumCount >= 1

\* the level the thresholds 80, 60, 40 and 20 give the reported score
LevelOfReported ==
  CASE summaryOut.riskScore >= 80 -> "CRITICAL"
    [] summaryOut.riskScore \in 60..79 -> "HIGH"
    [] summaryOut.riskScore \in 40..59 -> "MEDIUM"
    [] summaryOut.riskScore \in 20..39 -> "LOW"
    [] OTHER -> "MINIMAL"

\* C30: for every vulnerability risk score in 0..100 and every pair of
\* critical and high simulation counts, the summary's riskScore is an integer
\* in 0..100 and its riskLevel is the level of that reported riskScore,
\* although the level is computed from the score before the cap at 100.
C30_LevelMatchesReportedScore ==
  summaryOut.done =>
    /\ summaryOut.riskScore \in 0..100
    /\ summaryOut.riskLevel = LevelOfReported
    /\ summaryOut.raw > 100 =>
         summaryOut.riskScore = 100 /\ summaryOut.riskLevel = "CRITICAL"

\* findings score 100 with four critical and four high simulations: the
\* level was computed from 120, the reported score is 100, both CRITICAL
C30_Witness ==
  /\ summaryOut.done
  /\ summaryIn = Results(TRUE, 100, TRUE, 4, 4)
  /\ summaryOut.raw = 120
  /\ summaryOut.riskScore = 100
  /\ summaryOut.riskLevel = "CRITICAL"

====
